---------------------------- MODULE Spec2Model ----------------------------
(***************************************************************************)
(* State-machine model of listen-for-shutdown.py: a Raspberry Pi button    *)
(* monitor that runs "wall", "sync" and "halt" when the button on GPIO 3   *)
(* is pressed.                                                             *)
(*                                                                         *)
(* Two flows of control exist: the main thread (main, poll_button, the     *)
(* signal handler cleanup_handler) and the single RPi.GPIO callback thread *)
(* that runs button_callback for each delivered falling edge, one call at  *)
(* a time.  Time is counted in milliseconds and advances in steps of the   *)
(* shortest sleep of the program (PollInterval); every time.sleep(d) is a  *)
(* lower bound: the sleeper resumes at some moment after d has elapsed.    *)
(***************************************************************************)
EXTENDS Integers, Sequences, FiniteSets

\* ------------------------------------------------------------- constants

BUTTON_PIN == 3

\* time.sleep(0.05) in button_callback, in milliseconds
CallbackDebounce == 50

\* time.sleep(0.05) in poll_button, in milliseconds
PollDebounce == 50

\* time.sleep(0.01) at the end of each polling iteration, in milliseconds
PollInterval == 10

\* bouncetime=200 given to GPIO.add_event_detect, in milliseconds
BounceTime == 200

\* ---------------------------------------------------------------- bounds

\* number of level changes the environment applies to the pin
MaxPinChanges == 4

\* ----------------------------------------------------------------- state

VARIABLES
    isRoot,             \* os.geteuid() == 0
    pc,                 \* [main |-> position of the main thread, cb |-> of the callback thread]
    timer,              \* [main, cb]: milliseconds left of the current time.sleep
    exitCode,           \* -1 while the process runs, else its exit status
    exitCause,          \* "none", "not_root", "handler", "default_signal", "return"
    handlers,           \* signals for which cleanup_handler is registered
    gpioOps,            \* names of the RPi.GPIO functions called so far
    gpioMode,           \* "unset" or "BCM"
    pinSetup,           \* the channel is configured by this process
    pinPull,            \* "none" (not configured), "off" or "up"
    eventDetect,        \* a falling-edge registration is active on the pin
    edgePending,        \* an edge is waiting for the callback thread
    sinceCall,          \* ms since the callback thread last accepted an edge, -1: never
    cbCalls,            \* number of button_callback invocations
    shutdown_triggered, \* the global flag
    prev_state,         \* local of poll_button, -1 before assignment
    current_state,      \* local of poll_button, -1 before assignment
    pollEdges,          \* number of HIGH->LOW sample pairs seen by poll_button
    confirm_state,      \* value of GPIO.input at line 81 in this iteration, -1: none
    readError,          \* a GPIO.input of poll_button raised
    lowSincePoll,       \* the first sample of poll_button read LOW and the pin has not changed since
    shutdownStarts,     \* number of calls of shutdown_system
    completed,          \* calls of shutdown_system that returned
    aborted,            \* calls of shutdown_system that ended by an exception of their own
    sdStep,             \* index in ShutdownProgram of the next command, 0 outside shutdown_system
    runCmds,            \* commands attempted by the current/last call of shutdown_system
    wallFailed,         \* the wall command of the current/last call failed
    haltFailed,         \* the halt command of the current/last call failed
    stdout,             \* set of messages printed
    startLevel,         \* level of the pin when the process started
    pin,                \* electrical level of the pin
    lowFor,             \* ms the pin has been low since its last fall, -1: no fall in progress
    sustained,          \* some fall has been held low for a full debounce window
    pinChanges,         \* level changes applied so far
    sigArmedNoEdge      \* a handled signal arrived while armed with no edge observed

vars == <<isRoot, pc, timer, exitCode, exitCause, handlers, gpioOps, gpioMode,
          pinSetup, pinPull, eventDetect, edgePending, sinceCall, cbCalls,
          shutdown_triggered, prev_state, current_state, pollEdges,
          confirm_state, readError, lowSincePoll,
          shutdownStarts, completed, aborted, sdStep, runCmds, wallFailed,
          haltFailed,
          stdout, startLevel, pin, lowFor, sustained, pinChanges,
          sigArmedNoEdge>>

gpioVars == <<gpioMode, pinSetup, pinPull, eventDetect, edgePending>>
envVars  == <<startLevel, pin, lowFor, sustained, pinChanges>>
runVars  == <<shutdownStarts, completed, aborted, sdStep, runCmds, wallFailed,
              haltFailed>>
pollVars == <<prev_state, current_state, pollEdges, confirm_state, readError,
              lowSincePoll>>
cbVars   == <<sinceCall, cbCalls, shutdown_triggered>>
procVars == <<isRoot, exitCode, exitCause, handlers, sigArmedNoEdge>>

Signals == {"SIGTERM", "SIGINT"}

CmdOutcomes == {"ok", "nonzero", "raise"}

Alive == exitCode = -1

Min(a, b) == IF a < b THEN a ELSE b
Max(a, b) == IF a > b THEN a ELSE b

Init ==
    /\ isRoot \in BOOLEAN
    /\ pc = [main |-> "start", cb |-> "none"]
    /\ timer = [main |-> 0, cb |-> 0]
    /\ exitCode = -1
    /\ exitCause = "none"
    /\ handlers = {}
    /\ gpioOps = {}
    /\ gpioMode = "unset"
    /\ pinSetup = FALSE
    /\ pinPull = "none"
    /\ eventDetect = FALSE
    /\ edgePending = FALSE
    /\ sinceCall = -1
    /\ cbCalls = 0
    /\ shutdown_triggered = FALSE
    /\ prev_state = -1
    /\ current_state = -1
    /\ pollEdges = 0
    /\ confirm_state = -1
    /\ readError = FALSE
    /\ lowSincePoll = FALSE
    /\ shutdownStarts = 0
    /\ completed = 0
    /\ aborted = 0
    /\ sdStep = 0
    /\ runCmds = <<>>
    /\ wallFailed = FALSE
    /\ haltFailed = FALSE
    /\ stdout = {}
    /\ pin \in {0, 1}
    /\ startLevel = pin
    /\ lowFor = -1
    /\ sustained = FALSE
    /\ pinChanges = 0
    /\ sigArmedNoEdge = FALSE


\* ------------------------------------------------------- RPi.GPIO effects

\* GPIO.cleanup(): every channel this process configured goes back to an
\* unconfigured input and its edge registration is removed
GpioCleanup ==
    /\ gpioOps' = gpioOps \cup {"cleanup"}
    /\ gpioMode' = "unset"
    /\ pinSetup' = FALSE
    /\ pinPull' = "none"
    /\ eventDetect' = FALSE
    /\ edgePending' = FALSE

\* the process ends: no thread takes another step
Exit(code, cause) ==
    /\ exitCode' = code
    /\ exitCause' = cause
    /\ pc' = [main |-> "exited", cb |-> "none"]
    /\ timer' = [main |-> 0, cb |-> 0]

\* ------------------------------------------------------------ main thread

\* mutant of CheckRoot: the privilege test is missing
CheckRootMissing ==
    /\ Alive /\ pc.main = "start"
    /\ pc' = [pc EXCEPT !.main = "reg_sigterm"]
    /\ UNCHANGED <<procVars, timer, gpioOps, gpioVars, cbVars, pollVars, runVars,
                   envVars, stdout>>

\* main, lines 97-99: refuse to run without root
CheckRoot ==
    /\ Alive /\ pc.main = "start"
    /\ IF isRoot
          THEN /\ pc' = [pc EXCEPT !.main = "reg_sigterm"]
               /\ UNCHANGED <<timer, exitCode, exitCause, stdout>>
          ELSE /\ stdout' = stdout \cup {"must_be_root"}
               /\ Exit(1, "not_root")
    /\ UNCHANGED <<isRoot, handlers, sigArmedNoEdge, gpioOps, gpioVars, cbVars,
                   pollVars, runVars, envVars>>

\* main, line 102
RegisterSigterm ==
    /\ Alive /\ pc.main = "reg_sigterm"
    /\ handlers' = handlers \cup {"SIGTERM"}
    /\ pc' = [pc EXCEPT !.main = "reg_sigint"]
    /\ UNCHANGED <<isRoot, timer, exitCode, exitCause, sigArmedNoEdge, gpioOps,
                   gpioVars, cbVars, pollVars, runVars, envVars, stdout>>

\* main, line 103
RegisterSigint ==
    /\ Alive /\ pc.main = "reg_sigint"
    /\ handlers' = handlers \cup {"SIGINT"}
    /\ pc' = [pc EXCEPT !.main = "pre_cleanup"]
    /\ UNCHANGED <<isRoot, timer, exitCode, exitCause, sigArmedNoEdge, gpioOps,
                   gpioVars, cbVars, pollVars, runVars, envVars, stdout>>

\* main, line 106: GPIO.cleanup() before the try block
PreCleanup ==
    /\ Alive /\ pc.main = "pre_cleanup"
    /\ GpioCleanup
    /\ pc' = [pc EXCEPT !.main = "setmode"]
    /\ UNCHANGED <<procVars, timer, cbVars, pollVars, runVars, envVars, stdout>>

\* main, line 110
SetMode ==
    /\ Alive /\ pc.main = "setmode"
    /\ gpioOps' = gpioOps \cup {"setmode"}
    /\ gpioMode' = "BCM"
    /\ pc' = [pc EXCEPT !.main = "setup"]
    /\ UNCHANGED <<procVars, timer, pinSetup, pinPull, eventDetect, edgePending,
                   cbVars, pollVars, runVars, envVars, stdout>>

\* main, line 113: GPIO.setup(BUTTON_PIN, GPIO.IN), no pull_up_down argument;
\* a failure is caught at lines 136-137
Setup ==
    /\ Alive /\ pc.main = "setup"
    /\ gpioOps' = gpioOps \cup {"setup"}
    /\ \E ok \in BOOLEAN :
          IF ok
             THEN /\ pinSetup' = TRUE
                  /\ pinPull' = "off"
                  /\ pc' = [pc EXCEPT !.main = "add_event_detect"]
                  /\ UNCHANGED stdout
             ELSE /\ stdout' = stdout \cup {"setup_error"}
                  /\ pc' = [pc EXCEPT !.main = "main_finally"]
                  /\ UNCHANGED <<pinSetup, pinPull>>
    /\ UNCHANGED <<procVars, timer, gpioMode, eventDetect, edgePending, cbVars,
                   pollVars, runVars, envVars>>

\* mutant of AddEventDetect: poll_button is entered after a successful
\* registration too
AddEventDetectThenPoll ==
    /\ Alive /\ pc.main = "add_event_detect"
    /\ gpioOps' = gpioOps \cup {"add_event_detect"}
    /\ \E ok \in BOOLEAN :
          IF ok
             THEN /\ eventDetect' = TRUE
                  /\ stdout' = stdout \cup {"setting_up_edge", "monitoring"}
                  /\ pc' = [main |-> "poll_start", cb |-> "wait"]
             ELSE /\ stdout' = stdout \cup {"setting_up_edge"}
                  /\ pc' = [pc EXCEPT !.main = "fallback"]
                  /\ UNCHANGED eventDetect
    /\ UNCHANGED <<procVars, timer, gpioMode, pinSetup, pinPull, edgePending,
                   cbVars, pollVars, runVars, envVars>>

\* main, lines 116-126: register the falling-edge callback, then idle in
\* "while True: time.sleep(1)"; a RuntimeError leaves no registration and is
\* caught at line 128
AddEventDetect ==
    /\ Alive /\ pc.main = "add_event_detect"
    /\ gpioOps' = gpioOps \cup {"add_event_detect"}
    /\ \E ok \in BOOLEAN :
          IF ok
             THEN /\ eventDetect' = TRUE
                  /\ stdout' = stdout \cup {"setting_up_edge", "monitoring"}
                  /\ pc' = [main |-> "idle", cb |-> "wait"]
             ELSE /\ stdout' = stdout \cup {"setting_up_edge"}
                  /\ pc' = [pc EXCEPT !.main = "fallback"]
                  /\ UNCHANGED eventDetect
    /\ UNCHANGED <<procVars, timer, gpioMode, pinSetup, pinPull, edgePending,
                   cbVars, pollVars, runVars, envVars>>

\* mutant of Fallback: the failure reason is not printed
FallbackSilent ==
    /\ Alive /\ pc.main = "fallback"
    /\ gpioOps' = gpioOps \cup {"remove_event_detect"}
    /\ eventDetect' = FALSE
    /\ edgePending' = FALSE
    /\ pc' = [pc EXCEPT !.main = "poll_start"]
    /\ UNCHANGED <<procVars, timer, gpioMode, pinSetup, pinPull, cbVars,
                   pollVars, runVars, envVars, stdout>>

\* main, lines 128-133: log the failure, remove the registration
Fallback ==
    /\ Alive /\ pc.main = "fallback"
    /\ stdout' = stdout \cup {"edge_failed", "falling_back"}
    /\ gpioOps' = gpioOps \cup {"remove_event_detect"}
    /\ eventDetect' = FALSE
    /\ edgePending' = FALSE
    /\ pc' = [pc EXCEPT !.main = "poll_start"]
    /\ UNCHANGED <<procVars, timer, gpioMode, pinSetup, pinPull, cbVars,
                   pollVars, runVars, envVars>>

\* mutant of MainFinally: the finally clause does not call GPIO.cleanup()
MainFinallyNoCleanup ==
    /\ Alive /\ pc.main = "main_finally"
    /\ Exit(0, "return")
    /\ UNCHANGED <<isRoot, handlers, sigArmedNoEdge, gpioOps, gpioVars, cbVars,
                   pollVars, runVars, envVars, stdout>>

\* main, line 139, reached by a normal return or a caught exception:
\* GPIO.cleanup(), then main returns and the process ends with status 0
MainFinally ==
    /\ Alive /\ pc.main = "main_finally"
    /\ GpioCleanup
    /\ Exit(0, "return")
    /\ UNCHANGED <<isRoot, handlers, sigArmedNoEdge, cbVars, pollVars, runVars,
                   envVars, stdout>>


\* -------------------------------------------------------- shutdown_system

\* mutant of ShutdownProgram: the flush is issued before the broadcast
ShutdownProgramSyncFirst == <<"sync", "wall", "halt">>

\* shutdown_system, lines 45-48: the commands, in program order
ShutdownProgram == <<"wall", "sync", "halt">>

\* a call of shutdown_system by thread r, line 44
StartShutdown(r) ==
    /\ shutdownStarts' = shutdownStarts + 1
    /\ sdStep' = 1
    /\ runCmds' = <<>>
    /\ wallFailed' = FALSE
    /\ haltFailed' = FALSE
    /\ stdout' = stdout \cup {"initiating_shutdown"}
    /\ pc' = [pc EXCEPT ![r] = "shutdown"]
    /\ UNCHANGED <<completed, aborted>>

\* where thread r continues when shutdown_system returns: line 84 in
\* poll_button; button_callback returns to the callback thread's wait
AfterShutdown(r) == IF r = "main" THEN "poll_update" ELSE "wait"

\* where an exception raised in thread r goes: poll_button catches it at
\* lines 86-87; the callback thread reports it and waits for the next edge
AfterRaise(r) == IF r = "main" THEN "poll_finally" ELSE "wait"

\* shutdown_system, lines 45-48: thread r runs the next subprocess.run.  No
\* check=True is given, so a non-zero exit status is ignored; subprocess.run
\* raises OSError when the command cannot be spawned.
RunCommand(r) ==
    /\ Alive /\ pc[r] = "shutdown" /\ sdStep \in 1..Len(ShutdownProgram)
    /\ runCmds' = Append(runCmds, ShutdownProgram[sdStep])
    /\ \E out \in CmdOutcomes :
          /\ wallFailed' = IF ShutdownProgram[sdStep] = "wall" THEN out # "ok"
                                                                ELSE wallFailed
          /\ haltFailed' = IF ShutdownProgram[sdStep] = "halt" THEN out # "ok"
                                                                ELSE haltFailed
          /\ IF out = "raise"
                THEN /\ aborted' = aborted + 1
                     /\ sdStep' = 0
                     /\ pc' = [pc EXCEPT ![r] = AfterRaise(r)]
                     /\ stdout' = IF r = "main" THEN stdout \cup {"poll_error"}
                                                ELSE stdout
                     /\ UNCHANGED completed
                ELSE IF sdStep = Len(ShutdownProgram)
                THEN /\ completed' = completed + 1
                     /\ sdStep' = 0
                     /\ pc' = [pc EXCEPT ![r] = AfterShutdown(r)]
                     /\ UNCHANGED <<aborted, stdout>>
                ELSE /\ sdStep' = sdStep + 1
                     /\ UNCHANGED <<pc, completed, aborted, stdout>>
    /\ UNCHANGED <<procVars, timer, gpioOps, gpioVars, cbVars, pollVars,
                   shutdownStarts, envVars>>

\* ------------------------------------------------------------ poll_button

\* mutant of PollStart: prev_state starts as HIGH instead of a sample
PollStartAssumesHigh ==
    /\ Alive /\ pc.main = "poll_start"
    /\ prev_state' = 1
    /\ lowSincePoll' = (pin = 0)
    /\ stdout' = stdout \cup {"using_polling"}
    /\ pc' = [pc EXCEPT !.main = "poll_read"]
    /\ UNCHANGED <<procVars, timer, gpioOps, gpioVars, cbVars, current_state,
                   pollEdges, confirm_state, readError, runVars, envVars>>

\* poll_button, lines 69-70: the first sample, taken outside the try block,
\* so a read error is caught by main at lines 136-137
PollStart ==
    /\ Alive /\ pc.main = "poll_start"
    /\ gpioOps' = gpioOps \cup {"input"}
    /\ \E ok \in BOOLEAN :
          IF ok
             THEN /\ prev_state' = pin
                  /\ lowSincePoll' = (pin = 0)
                  /\ stdout' = stdout \cup {"using_polling"}
                  /\ pc' = [pc EXCEPT !.main = "poll_read"]
                  /\ UNCHANGED readError
             ELSE /\ readError' = TRUE
                  /\ stdout' = stdout \cup {"using_polling", "setup_error"}
                  /\ pc' = [pc EXCEPT !.main = "main_finally"]
                  /\ UNCHANGED <<prev_state, lowSincePoll>>
    /\ UNCHANGED <<procVars, timer, gpioVars, cbVars, current_state, pollEdges,
                   confirm_state, runVars, envVars>>

\* mutant of PollRead: a read error is swallowed inside the loop
PollReadIgnoresError ==
    /\ Alive /\ pc.main = "poll_read" /\ timer.main = 0
    /\ gpioOps' = gpioOps \cup {"input"}
    /\ \E ok \in BOOLEAN :
          IF ~ok
             THEN /\ readError' = TRUE
                  /\ stdout' = stdout \cup {"poll_error"}
                  /\ pc' = [pc EXCEPT !.main = "poll_update"]
                  /\ UNCHANGED <<current_state, pollEdges, timer>>
             ELSE /\ current_state' = pin
                  /\ UNCHANGED <<stdout, readError>>
                  /\ IF prev_state = 1 /\ pin = 0
                        THEN /\ pollEdges' = pollEdges + 1
                             /\ timer' = [timer EXCEPT !.main = PollDebounce]
                             /\ pc' = [pc EXCEPT !.main = "poll_debounce"]
                        ELSE /\ pc' = [pc EXCEPT !.main = "poll_update"]
                             /\ UNCHANGED <<pollEdges, timer>>
    /\ UNCHANGED <<procVars, gpioVars, cbVars, prev_state, confirm_state,
                   lowSincePoll, runVars, envVars>>

\* poll_button, lines 74-79: sample the pin once the sleep of line 85 is
\* over; a HIGH->LOW pair starts the debounce sleep
PollRead ==
    /\ Alive /\ pc.main = "poll_read" /\ timer.main = 0
    /\ gpioOps' = gpioOps \cup {"input"}
    /\ \E ok \in BOOLEAN :
          IF ~ok
             THEN /\ readError' = TRUE
                  /\ stdout' = stdout \cup {"poll_error"}
                  /\ pc' = [pc EXCEPT !.main = "poll_finally"]
                  /\ UNCHANGED <<current_state, pollEdges, timer>>
             ELSE /\ current_state' = pin
                  /\ UNCHANGED <<stdout, readError>>
                  /\ IF prev_state = 1 /\ pin = 0
                        THEN /\ pollEdges' = pollEdges + 1
                             /\ timer' = [timer EXCEPT !.main = PollDebounce]
                             /\ pc' = [pc EXCEPT !.main = "poll_debounce"]
                        ELSE /\ pc' = [pc EXCEPT !.main = "poll_update"]
                             /\ UNCHANGED <<pollEdges, timer>>
    /\ UNCHANGED <<procVars, gpioVars, cbVars, prev_state, confirm_state,
                   lowSincePoll, runVars, envVars>>

\* mutant of PollConfirm: shutdown_system is called whatever the re-sample
PollConfirmNoRecheck ==
    /\ Alive /\ pc.main = "poll_debounce" /\ timer.main = 0
    /\ gpioOps' = gpioOps \cup {"input"}
    /\ \E ok \in BOOLEAN :
          IF ~ok
             THEN /\ readError' = TRUE
                  /\ stdout' = stdout \cup {"poll_error"}
                  /\ pc' = [pc EXCEPT !.main = "poll_finally"]
                  /\ UNCHANGED <<runVars, confirm_state>>
             ELSE /\ confirm_state' = pin
                  /\ UNCHANGED readError
                  /\ StartShutdown("main")
    /\ UNCHANGED <<procVars, timer, gpioVars, cbVars, prev_state, current_state,
                   pollEdges, lowSincePoll, envVars>>

\* poll_button, lines 81-82: after the debounce sleep sample again and call
\* shutdown_system if the pin is still LOW
PollConfirm ==
    /\ Alive /\ pc.main = "poll_debounce" /\ timer.main = 0
    /\ gpioOps' = gpioOps \cup {"input"}
    /\ \E ok \in BOOLEAN :
          IF ~ok
             THEN /\ readError' = TRUE
                  /\ stdout' = stdout \cup {"poll_error"}
                  /\ pc' = [pc EXCEPT !.main = "poll_finally"]
                  /\ UNCHANGED <<runVars, confirm_state>>
             ELSE /\ confirm_state' = pin
                  /\ UNCHANGED readError
                  /\ IF pin = 0
                        THEN StartShutdown("main")
                        ELSE /\ pc' = [pc EXCEPT !.main = "poll_update"]
                             /\ UNCHANGED <<runVars, stdout>>
    /\ UNCHANGED <<procVars, timer, gpioVars, cbVars, prev_state, current_state,
                   pollEdges, lowSincePoll, envVars>>

\* poll_button, lines 84-85
PollUpdate ==
    /\ Alive /\ pc.main = "poll_update"
    /\ prev_state' = current_state
    /\ confirm_state' = -1
    /\ timer' = [timer EXCEPT !.main = PollInterval]
    /\ pc' = [pc EXCEPT !.main = "poll_read"]
    /\ UNCHANGED <<procVars, gpioOps, gpioVars, cbVars, current_state, pollEdges,
                   readError, lowSincePoll, runVars, envVars, stdout>>

\* poll_button, lines 88-89: GPIO.cleanup(), then poll_button returns into
\* main's except clause, which ends
PollFinally ==
    /\ Alive /\ pc.main = "poll_finally"
    /\ GpioCleanup
    /\ pc' = [pc EXCEPT !.main = "main_finally"]
    /\ UNCHANGED <<procVars, timer, cbVars, pollVars, runVars, envVars, stdout>>

\* -------------------------------------------------------- callback thread

\* GPIO.add_event_detect(..., callback=button_callback, bouncetime=200),
\* lines 118-120: the callback thread takes a pending edge when it is not
\* inside a callback, and calls button_callback unless the previous accepted
\* edge is no more than bouncetime old
DeliverEdge ==
    /\ Alive /\ pc.cb = "wait" /\ eventDetect /\ edgePending
    /\ edgePending' = FALSE
    /\ IF sinceCall = -1 \/ sinceCall > BounceTime
          THEN /\ sinceCall' = 0
               /\ cbCalls' = cbCalls + 1
               /\ pc' = [pc EXCEPT !.cb = "cb_debounce"]
               /\ timer' = [timer EXCEPT !.cb = CallbackDebounce]
          ELSE UNCHANGED <<sinceCall, cbCalls, pc, timer>>
    /\ UNCHANGED <<procVars, gpioOps, gpioMode, pinSetup, pinPull, eventDetect,
                   shutdown_triggered, pollVars, runVars, envVars, stdout>>

\* mutant of ButtonCallback: the flag is set but never tested
ButtonCallbackUnguarded ==
    /\ Alive /\ pc.cb = "cb_debounce" /\ timer.cb = 0
    /\ shutdown_triggered' = TRUE
    /\ StartShutdown("cb")
    /\ UNCHANGED <<procVars, timer, gpioOps, gpioVars, sinceCall, cbCalls,
                   pollVars, envVars>>

\* mutant of ButtonCallback: the pin is read after the debounce sleep and a
\* HIGH level drops the notification
ButtonCallbackRechecksPin ==
    /\ Alive /\ pc.cb = "cb_debounce" /\ timer.cb = 0
    /\ IF ~shutdown_triggered /\ pin = 0
          THEN /\ shutdown_triggered' = TRUE
               /\ StartShutdown("cb")
          ELSE /\ pc' = [pc EXCEPT !.cb = "wait"]
               /\ UNCHANGED <<shutdown_triggered, runVars, stdout>>
    /\ UNCHANGED <<procVars, timer, gpioOps, gpioVars, sinceCall, cbCalls,
                   pollVars, envVars>>

\* button_callback, lines 55-60, after the debounce sleep: test and set the
\* flag, call shutdown_system.  The pin is not read.
ButtonCallback ==
    /\ Alive /\ pc.cb = "cb_debounce" /\ timer.cb = 0
    /\ IF ~shutdown_triggered
          THEN /\ shutdown_triggered' = TRUE
               /\ StartShutdown("cb")
          ELSE /\ pc' = [pc EXCEPT !.cb = "wait"]
               /\ UNCHANGED <<shutdown_triggered, runVars, stdout>>
    /\ UNCHANGED <<procVars, timer, gpioOps, gpioVars, sinceCall, cbCalls,
                   pollVars, envVars>>

\* ---------------------------------------------------------------- signals

\* the program is armed: a detector is active and no edge is being handled
Armed ==
    \/ pc.main = "idle" /\ eventDetect /\ pc.cb = "wait"
    \/ pc.main \in {"poll_read", "poll_update"}

NoEdgeObserved == cbCalls = 0 /\ pollEdges = 0 /\ shutdownStarts = 0

\* mutant of CleanupHandler: the handler exits with status 1
CleanupHandlerExit1(sig) ==
    /\ Alive /\ sig \in handlers
    /\ sigArmedNoEdge' = (Armed /\ NoEdgeObserved)
    /\ GpioCleanup
    /\ Exit(1, "handler")
    /\ UNCHANGED <<isRoot, handlers, cbVars, pollVars, runVars, envVars, stdout>>

\* cleanup_handler, lines 62-65, run in the main thread for a registered
\* signal: GPIO.cleanup(), sys.exit(0).  SystemExit is not an Exception, so
\* the except clauses are skipped and only the finally clauses (GPIO.cleanup
\* again) run before the process ends, which ends the callback thread too.
CleanupHandler(sig) ==
    /\ Alive /\ sig \in handlers
    /\ sigArmedNoEdge' = (Armed /\ NoEdgeObserved)
    /\ GpioCleanup
    /\ Exit(0, "handler")
    /\ UNCHANGED <<isRoot, handlers, cbVars, pollVars, runVars, envVars, stdout>>

\* a signal that arrives before its handler is registered (before lines
\* 102/103) ends the process by its default action
DefaultSignal(sig) ==
    /\ Alive /\ sig \notin handlers
    /\ Exit(IF sig = "SIGTERM" THEN 143 ELSE 130, "default_signal")
    /\ UNCHANGED <<isRoot, handlers, sigArmedNoEdge, gpioOps, gpioVars, cbVars,
                   pollVars, runVars, envVars, stdout>>

\* ------------------------------------------------------------ environment

\* the button or contact bounce changes the level of the pin; a fall while
\* the edge registration is active leaves an edge for the callback thread
PinChange ==
    /\ Alive /\ pinChanges < MaxPinChanges
    /\ pin' = 1 - pin
    /\ lowFor' = IF pin = 1 THEN 0 ELSE -1
    /\ edgePending' = IF pin = 1 /\ eventDetect THEN TRUE ELSE edgePending
    /\ pinChanges' = pinChanges + 1
    /\ lowSincePoll' = FALSE
    /\ UNCHANGED <<procVars, pc, timer, gpioOps, gpioMode, pinSetup, pinPull,
                   eventDetect, cbVars, prev_state, current_state, pollEdges,
                   confirm_state, readError, runVars, startLevel, sustained, stdout>>

\* PollInterval milliseconds pass
Tick ==
    /\ Alive
    /\ timer' = [r \in DOMAIN timer |-> Max(0, timer[r] - PollInterval)]
    /\ sinceCall' = IF sinceCall = -1 THEN -1
                    ELSE Min(sinceCall + PollInterval, BounceTime + PollInterval)
    /\ lowFor' = IF lowFor = -1 THEN -1
                 ELSE Min(lowFor + PollInterval, PollDebounce)
    /\ sustained' = (sustained \/ lowFor' >= PollDebounce)
    /\ UNCHANGED <<procVars, pc, gpioOps, gpioVars, cbCalls, shutdown_triggered,
                   pollVars, runVars, startLevel, pin, pinChanges, stdout>>

\* ---------------------------------------------------------- specification

Next ==
    \/ CheckRoot
    \/ RegisterSigterm
    \/ RegisterSigint
    \/ PreCleanup
    \/ SetMode
    \/ Setup
    \/ AddEventDetect
    \/ Fallback
    \/ PollStart
    \/ PollRead
    \/ PollConfirm
    \/ PollUpdate
    \/ PollFinally
    \/ MainFinally
    \/ DeliverEdge
    \/ ButtonCallback
    \/ \E r \in {"main", "cb"} : RunCommand(r)
    \/ \E sig \in Signals : CleanupHandler(sig)
    \/ \E sig \in Signals : DefaultSignal(sig)
    \/ PinChange
    \/ Tick

Spec == Init /\ [][Next]_vars

\* Scheduling: time passes, a thread whose sleep is over resumes, and a
\* thread that is unwinding to its finally clause runs it
FairSpec ==
    /\ Spec
    /\ WF_vars(Tick)
    /\ WF_vars(ButtonCallback)
    /\ WF_vars(PollFinally)
    /\ WF_vars(MainFinally)

\* positions of the main thread inside the loop of poll_button
PollLoop == {"poll_read", "poll_debounce", "poll_update"}

\* the main thread is in poll_button (the loop, or shutdown_system called
\* from it)
Polling == pc.main \in PollLoop \/ (pc.main = "shutdown" /\ sdStep > 0)

\* the whole-program state named by the design
Phase ==
    IF pc.main \in {"exited", "poll_finally", "main_finally"} THEN "Terminated"
    ELSE IF pc.main = "shutdown" \/ pc.cb = "shutdown" THEN "ShuttingDown"
    ELSE IF pc.main = "poll_debounce" \/ pc.cb = "cb_debounce" THEN "Debouncing"
    ELSE IF pc.main \in {"idle", "poll_read", "poll_update"} THEN "Armed"
    ELSE "Idle"

TypeOK ==
    /\ isRoot \in BOOLEAN
    /\ pc.main \in {"start", "reg_sigterm", "reg_sigint", "pre_cleanup", "setmode",
                    "setup", "add_event_detect", "idle", "fallback", "poll_start",
                    "poll_read", "poll_debounce", "poll_update", "shutdown",
                    "poll_finally", "main_finally", "exited"}
    /\ pc.cb \in {"none", "wait", "cb_debounce", "shutdown"}
    /\ timer.main \in 0..PollDebounce /\ timer.cb \in 0..CallbackDebounce
    /\ exitCode \in {-1, 0, 1, 130, 143}
    /\ handlers \subseteq Signals
    /\ pin \in {0, 1}
    /\ prev_state \in {-1, 0, 1} /\ current_state \in {-1, 0, 1}
    /\ confirm_state \in {-1, 0, 1}
    /\ sdStep \in 0..Len(ShutdownProgram)
    /\ pinChanges \in 0..MaxPinChanges


\* ----------------------------------------------------------------- claims

\* C1: on either detection path, shutdown_system is started at most once
\* per process lifetime.  (Fails: poll_button calls shutdown_system without
\* testing shutdown_triggered and keeps polling when it returns.)
C1_AtMostOnce == shutdownStarts <= 1

\* C2: once the pin has fallen and stayed low for a full debounce window,
\* the Shutdown Sequence has run no more than once, whatever presses follow.
\* (Fails in the polling path for the reason of C1.)
C2_ExactlyOnce == sustained => shutdownStarts <= 1

\* C3: while the pin, idle high at start, has never stayed low for a full
\* debounce window after a fall (bounces only), the Shutdown Sequence has
\* not been started.  (Fails: button_callback does not read the pin.)
C3_BouncesNeverShutDown == (startLevel = 1 /\ ~sustained) => shutdownStarts = 0

C5_CommandOrder ==
    /\ Len(runCmds) <= 3
    /\ \A i \in 1..Len(runCmds) : runCmds[i] = <<"wall", "sync", "halt">>[i]

C5_Witness == runCmds = <<"wall", "sync", "halt">> /\ completed = 1

\* C6: a SIGTERM or SIGINT received while armed with no edge observed ends
\* the process with status 0, the pin released, and the Shutdown Sequence
\* never started.
C6_SignalWhileArmed ==
    sigArmedNoEdge =>
        /\ pc.main = "exited" /\ exitCode = 0
        /\ ~pinSetup /\ ~eventDetect /\ "cleanup" \in gpioOps
        /\ shutdownStarts = 0 /\ runCmds = <<>>

C6_Witness == sigArmedNoEdge /\ exitCode = 0 /\ pinChanges > 0

\* C7: a termination signal cannot cancel a Shutdown Sequence that has
\* started: when the process ends in cleanup_handler, every started sequence
\* has ended by itself.  (Fails: sys.exit(0) in the handler ends the process
\* between two commands.)
C7_RunsToCompletion == exitCause = "handler" => shutdownStarts = completed + aborted

\* C8: in every terminated state the pin is released: not configured and
\* with no edge registration.
C8_ReleasedAtExit == pc.main = "exited" => (~pinSetup /\ ~eventDetect)

C8_Witness ==
    /\ pc.main = "exited" /\ exitCause = "return"
    /\ {"setup", "input"} \subseteq gpioOps

\* C9: without root privilege the process performs no RPi.GPIO call and
\* registers no signal handler, and it ends at the privilege test with
\* status 1.
C9_NoRootNoPinIO ==
    ~isRoot =>
        /\ gpioOps = {} /\ handlers = {}
        /\ pc.main \in {"start", "exited"}
        /\ (pc.main = "exited" /\ exitCause # "default_signal") => exitCode = 1

C9_Witness == ~isRoot /\ exitCode = 1 /\ pc.main = "exited"

\* C10: when the wall step of a Shutdown Sequence has failed and the
\* sequence has ended, sync and halt have been attempted.  (Fails: an
\* exception of subprocess.run for wall leaves shutdown_system.)
C10_WallFailureNotFatal ==
    (wallFailed /\ sdStep = 0 /\ Alive) =>
        \E i, j \in 1..Len(runCmds) : runCmds[i] = "sync" /\ runCmds[j] = "halt"


\* C11: when the halt step of a Shutdown Sequence has failed, the process is
\* on its way out (logging the error, cleaning up, exited) and not
\* monitoring the button again.  (Fails: the exit status of halt is ignored
\* and shutdown_system returns into the polling loop or the callback thread.)
C11_HaltFailureFatal ==
    (haltFailed /\ sdStep = 0) =>
        /\ pc.main \in {"poll_finally", "main_finally", "exited"}
        /\ (Alive => "poll_error" \in stdout)

\* C12: a failed edge registration is logged before polling starts and is
\* not fatal: whenever poll_button is running or has sampled the pin the
\* failure reason has been printed, and a normal end of the process after
\* the failure comes only after poll_button has been entered.
C12_FallbackLogged ==
    /\ (pc.main = "poll_start" \/ Polling) => {"edge_failed", "falling_back"} \subseteq stdout
    /\ "input" \in gpioOps => "edge_failed" \in stdout
    /\ ("add_event_detect" \in gpioOps /\ ~eventDetect /\ exitCause = "return")
          => "using_polling" \in stdout

C12_Witness ==
    /\ pc.main = "poll_read" /\ current_state # -1
    /\ "edge_failed" \in stdout /\ Alive

\* C13: whenever a detector is active the pin is configured with the
\* internal pull-up.  (Fails: GPIO.setup is called without pull_up_down.)
C13_PullUpConfigured ==
    (eventDetect \/ Polling) => (pinSetup /\ pinPull = "up")

\* C14: poll_button is inside shutdown_system only after the samples HIGH
\* (previous), LOW (current), LOW (re-sample); a re-sample that reads HIGH
\* starts no Shutdown Sequence and the loop goes on at line 84.
C14_ThreeSamples ==
    /\ [](pc.main = "shutdown" =>
             (prev_state = 1 /\ current_state = 0 /\ confirm_state = 0))
    /\ [][(pc.main = "poll_debounce" /\ confirm_state' = 1)
             => (pc'.main = "poll_update" /\ shutdownStarts' = shutdownStarts)]_vars

C14_Witness ==
    /\ pc.main = "shutdown" /\ pollEdges = 2 /\ shutdownStarts = 1
    /\ prev_state = 1 /\ current_state = 0 /\ confirm_state = 0

\* C15: once the Shutdown Sequence has been entered the program is never
\* again Armed or Debouncing; stated for the sequences that no exception of
\* their own has ended.  (Fails: shutdown_system returns into the polling
\* loop, and button_callback returns with the registration active.)
C15_ShuttingDownTerminal ==
    (shutdownStarts > 0 /\ aborted = 0) => Phase \notin {"Armed", "Debouncing"}

\* C16: after a read error in poll_button the main thread is only ever in
\* the except/finally clauses or exited, no Shutdown Sequence is running,
\* the process has ended with the pin released once it is exited, and it
\* does end.
C16_ReadErrorEndsPolling ==
    /\ [](readError =>
             /\ pc.main \in {"poll_finally", "main_finally", "exited"}
             /\ sdStep = 0
             /\ (pc.main = "exited" => (~pinSetup /\ ~eventDetect)))
    /\ [][readError => (shutdownStarts' = shutdownStarts
                        /\ prev_state' = prev_state
                        /\ current_state' = current_state)]_vars
    /\ (readError ~> ~Alive)

C16_Witness ==
    /\ readError /\ pc.main = "exited" /\ exitCause = "return"
    /\ current_state # -1

\* C17: no state has both an edge registration (or a callback thread) and
\* poll_button running, and no process has both a callback invocation and a
\* pin sample of poll_button.
C17_DetectorsExclusive ==
    /\ ~((eventDetect \/ pc.cb # "none") /\ (pc.main = "poll_start" \/ Polling))
    /\ ~(cbCalls > 0 /\ "input" \in gpioOps)
    /\ ~(cbCalls > 0 /\ pollEdges > 0)

C17_Witness ==
    /\ pc.main = "shutdown" /\ pollEdges = 1 /\ cbCalls = 0
    /\ "remove_event_detect" \in gpioOps /\ ~eventDetect

\* C18: while the pin has stayed LOW since the first sample of poll_button
\* read it LOW, poll_button sees no transition and starts no Shutdown
\* Sequence.
C18_HeldLowNoShutdown ==
    lowSincePoll =>
        /\ shutdownStarts = 0 /\ pollEdges = 0
        /\ pc.main \in {"poll_read", "poll_update", "poll_finally", "main_finally",
                        "exited"}

C18_Witness ==
    /\ lowSincePoll /\ pc.main = "poll_read" /\ timer.main = 0
    /\ prev_state = 0 /\ current_state = 0

=============================================================================
